---- MODULE Spec2Model ----
(***************************************************************************)
(* SalesAnalytics: the Company aggregate (in-memory employees and          *)
(* financials), its SQLite store (employees and financials tables) and     *)
(* the explicit transfers between the two, as in src/company.py, together  *)
(* with build_company of src/main_app.py and src/app_streamlit.py, the     *)
(* reports of src/analysis.py on the profit table, and the simulator and   *)
(* the employee management forms of src/app_streamlit.py.                  *)
(*                                                                         *)
(* Numbers.  Python floats are modelled by exact integers: money is in     *)
(* whole units, bonus_rate and percent_increase are in percent (10 stands  *)
(* for 0.10).  Derived amounts carry the scale their definition says.      *)
(* A pd.Timestamp is the integer yyyymmddhh, the text strftime("%Y-%m-%d") *)
(* makes of it is the integer yyyymmdd.                                    *)
(***************************************************************************)
EXTENDS Integers, Sequences, FiniteSets, TLC

\* ---------------------------------------------------------------- bounds

\* Longest in-memory employees list the mutators build.
MaxEmployees == 2
\* Longest in-memory financials list the mutators build.
MaxFinancials == 2
\* Most rows of a DataFrame handed to load_*_from_df.
MaxRows == 2
\* Longest run of monthly records the analytics are given.
MaxHistory == 10

\* ------------------------------------------------------------ data classes

\* Employee(employee_id, name, department, base_salary, bonus_rate,
\*          overtime_hours, overtime_rate)
Employee(id, nm, dept, base, bonus, hours, rate) ==
    [employee_id |-> id, name |-> nm, department |-> dept, base_salary |-> base,
     bonus_rate |-> bonus, overtime_hours |-> hours, overtime_rate |-> rate]

\* monthly_bonus = base_salary * bonus_rate, in hundredths (bonus_rate in percent)
monthly_bonus(e) == e.base_salary * e.bonus_rate

\* monthly_overtime_pay = overtime_hours * overtime_rate, in units
monthly_overtime_pay(e) == e.overtime_hours * e.overtime_rate

\* total_monthly_compensation, in hundredths
total_monthly_compensation(e) ==
    100 * e.base_salary + monthly_bonus(e) + 100 * monthly_overtime_pay(e)

\* MonthlyFinancials(date, revenue, cogs, salary_expense, other_expense)
MonthlyFinancials(d, rev, cg, sal, oth) ==
    [date |-> d, revenue |-> rev, cogs |-> cg, salary_expense |-> sal,
     other_expense |-> oth]

\* ------------------------------------------------------------ input values

\* The employees the callers pass: two ids, and for each id two values that
\* differ in every non-key field.  The first is the employee of the spec's
\* simulate_salary_increase example; Ann and Bob earn the same total (110000).
Employees ==
    { Employee(1, "Ann",  "Sales", 1000, 10, 0, 0),
      Employee(1, "Anna", "Ops",   2000,  0, 2, 50),
      Employee(2, "Bob",  "Ops",   1100,  0, 0, 0),
      Employee(2, "Bo",   "Sales",  500, 20, 1, 10) }

\* A DataFrame cell that does not parse as a number (float("abc")).
NonNumeric == -1

\* Rows of an employees DataFrame: the employees above, and one row whose
\* base_salary cell is not numeric.
EmployeeRows ==
    Employees \cup {Employee(2, "Eve", "Ops", NonNumeric, 0, 0, 0)}

EmployeeColumns ==
    {"employee_id", "name", "department", "base_salary", "bonus_rate",
     "overtime_hours", "overtime_rate"}

\* The column sets of the employees DataFrames: all columns, one optional
\* column absent, one required column absent.
EmployeeColumnSets ==
    { EmployeeColumns, EmployeeColumns \ {"bonus_rate"},
      EmployeeColumns \ {"base_salary"} }

\* Timestamps (yyyymmddhh): 1 Jan 2024, 1 Jan 2024 12:00, 15 Jan 2024.
Financials ==
    { MonthlyFinancials(2024010100, 1000, 400, 200, 100),
      MonthlyFinancials(2024010112, 1500, 500, 300,  50),
      MonthlyFinancials(2024011500,    0,   0,   0,   0) }

FinancialRows ==
    Financials \cup {MonthlyFinancials(2024011500, NonNumeric, 0, 0, 0)}

FinancialColumns == {"date", "revenue", "cogs", "salary_expense", "other_expense"}

\* The column sets of the financial DataFrames: the five columns, the five
\* and a profit column, a required column absent.
FinancialColumnSets ==
    { FinancialColumns, FinancialColumns \cup {"profit"},
      FinancialColumns \ {"revenue"} }

\* percent_increase values passed to simulate_salary_increase, in percent.
Percents == {0, 10}

\* All sequences over S of length at most n.
SeqUpTo(S, n) == UNION {[1..k -> S] : k \in 0..n}

\* ------------------------------------------------------------------ state

VARIABLES
    employees,      \* Company.employees: sequence of Employee
    financials,     \* Company.financials: sequence of MonthlyFinancials
    schema,         \* the store's tables exist (init_db has run on the file)
    db_employees,   \* rows of the employees table
    db_financials,  \* rows of the financials table (date is the ISO text)
    result,         \* the last call: its name, argument, return value, error
                    \* and, for a read of one row, the call before it (for
                    \* a write built from a read: the value read and the
                    \* row the write replaced)
    sessions        \* the dashboard's script runs, one per actor: the form
                    \* handler each is in and the Company it holds

vars ==
    <<employees, financials, schema, db_employees, db_financials, result,
      sessions>>

\* What a call leaves behind.  ret is a sequence: <<>> for None.
Call(op, arg, ret, err) ==
    [op |-> op, arg |-> arg, ret |-> ret, err |-> err, after |-> <<>>]

\* A call and the call it came after.
CallAfter(before, op, arg, ret, err) ==
    [op |-> op, arg |-> arg, ret |-> ret, err |-> err,
     after |-> [op |-> before.op, arg |-> before.arg, err |-> before.err]]

NoError == "none"

\* The actors that run the dashboard.
Actors == {"a1", "a2"}

\* A script run outside any form handler; employees is the list of the
\* Company the run holds.
Idle(emps) == [pc |-> "idle", existing |-> <<>>, form |-> <<>>, employees |-> emps]

Init ==
    /\ employees = <<>>
    /\ financials = <<>>
    /\ schema = FALSE
    /\ db_employees = {}
    /\ db_financials = {}
    /\ result = Call("__init__", <<>>, <<>>, NoError)
    /\ sessions = [a \in Actors |-> Idle(<<>>)]

\* ------------------------------------------- employees, in memory (company.py)

\* Employee(...) of one DataFrame row, as load_employees_from_df builds it:
\* the arguments are evaluated in order, int()/float() raise ValueError on a
\* cell that is not numeric, row[...] raises KeyError on an absent column and
\* row.get(..., 0.0) gives 0 for an absent optional column.
EmployeeFromRow(cols, r) ==
    IF "employee_id" \notin cols THEN [err |-> "KeyError", value |-> r]
    ELSE IF r.employee_id = NonNumeric THEN [err |-> "ValueError", value |-> r]
    ELSE IF "name" \notin cols \/ "department" \notin cols
         THEN [err |-> "KeyError", value |-> r]
    ELSE IF "base_salary" \notin cols THEN [err |-> "KeyError", value |-> r]
    ELSE IF r.base_salary = NonNumeric THEN [err |-> "ValueError", value |-> r]
    ELSE LET opt(c, v) == IF c \in cols THEN v ELSE 0
             bonus == opt("bonus_rate", r.bonus_rate)
             hours == opt("overtime_hours", r.overtime_hours)
             rate  == opt("overtime_rate", r.overtime_rate)
         IN IF NonNumeric \in {bonus, hours, rate}
            THEN [err |-> "ValueError", value |-> r]
            ELSE [err |-> NoError,
                  value |-> Employee(r.employee_id, r.name, r.department,
                                     r.base_salary, bonus, hours, rate)]

RECURSIVE LoadEmployees(_, _, _)
\* The loop of load_employees_from_df on the list mem: each row is built and
\* appended in turn; the first row that raises ends the loop, the rows before
\* it already appended.
LoadEmployees(mem, cols, rows) ==
    IF rows = <<>> THEN [employees |-> mem, err |-> NoError]
    ELSE LET e == EmployeeFromRow(cols, Head(rows))
         IN IF e.err # NoError
            THEN [employees |-> mem, err |-> e.err]
            ELSE LoadEmployees(Append(mem, e.value), cols, Tail(rows))

\* An add_employee that also writes the employee through to the table.
add_employee_write_through(e) ==
    /\ Len(employees) < MaxEmployees
    /\ employees' = Append(employees, e)
    /\ db_employees' = {r \in db_employees : r.employee_id # e.employee_id} \cup {e}
    /\ result' = [op |-> "add_employee", arg |-> <<>>, ret |-> <<>>,
                  err |-> "none", after |-> <<>>]
    /\ UNCHANGED <<financials, schema, db_financials, sessions>>

\* add_employee(employee)
add_employee(e) ==
    /\ Len(employees) < MaxEmployees
    /\ employees' = Append(employees, e)
    /\ result' = Call("add_employee", <<>>, <<>>, NoError)
    /\ UNCHANGED <<financials, schema, db_employees, db_financials, sessions>>

\* load_employees_from_df(df), df having the columns cols and the rows rows
load_employees_from_df(cols, rows) ==
    /\ Len(employees) + Len(rows) <= MaxEmployees
    /\ LET r == LoadEmployees(employees, cols, rows)
       IN /\ employees' = r.employees
          /\ result' = Call("load_employees_from_df", <<>>, <<>>, r.err)
    /\ UNCHANGED <<financials, schema, db_employees, db_financials, sessions>>

RECURSIVE sum(_)
\* sum(...) of a sequence of numbers
sum(s) == IF s = <<>> THEN 0 ELSE Head(s) + sum(Tail(s))

\* total_monthly_salary_from_employees(), in hundredths
total_monthly_salary_from_employees(emps) ==
    sum([i \in 1..Len(emps) |-> total_monthly_compensation(emps[i])])

\* simulate_salary_increase(percent_increase), in hundredths: the base salary
\* is scaled, monthly_bonus and monthly_overtime_pay are the employee's own.
simulate_salary_increase_value(emps, pct) ==
    LET new(e) == e.base_salary * (100 + pct) + monthly_bonus(e)
                  + 100 * monthly_overtime_pay(e)
    IN sum([i \in 1..Len(emps) |-> new(emps[i])])
       - total_monthly_salary_from_employees(emps)

simulate_salary_increase(pct) ==
    /\ result' = Call("simulate_salary_increase", pct,
                      <<simulate_salary_increase_value(employees, pct)>>, NoError)
    /\ UNCHANGED <<employees, financials, schema, db_employees, db_financials, sessions>>

\* ------------------------------------------------ employees table (company.py)

\* A store call raises (sqlite3.OperationalError) when the tables do not
\* exist, and when the environment fails it (file unavailable, database
\* locked): io_fail is that choice of the environment.
StoreFails(io_fail) == ~schema \/ io_fail

StorageError == "OperationalError"

\* INSERT ... ON CONFLICT(employee_id) DO UPDATE that adds a row in both cases.
UpsertEmployee_always_insert(rows, e) == rows \cup {e}

\* INSERT ... ON CONFLICT(employee_id) DO UPDATE whose SET list lacks department.
UpsertEmployee_keeps_department(rows, e) ==
    IF \E r \in rows : r.employee_id = e.employee_id
    THEN { IF r.employee_id = e.employee_id
           THEN [e EXCEPT !.department = r.department] ELSE r : r \in rows }
    ELSE rows \cup {e}

\* INSERT INTO employees ... ON CONFLICT(employee_id) DO UPDATE SET the six
\* non-key columns: the table after the statement.
UpsertEmployee(rows, e) ==
    IF \E r \in rows : r.employee_id = e.employee_id
    THEN { IF r.employee_id = e.employee_id
           THEN [r EXCEPT !.name = e.name, !.department = e.department,
                          !.base_salary = e.base_salary,
                          !.bonus_rate = e.bonus_rate,
                          !.overtime_hours = e.overtime_hours,
                          !.overtime_rate = e.overtime_rate]
           ELSE r : r \in rows }
    ELSE rows \cup {Employee(e.employee_id, e.name, e.department, e.base_salary,
                             e.bonus_rate, e.overtime_hours, e.overtime_rate)}

\* DELETE FROM employees WHERE employee_id = ?
DeleteEmployee(rows, id) == {r \in rows : r.employee_id # id}

\* SELECT * FROM employees WHERE employee_id = ?; fetchone(); None or the
\* Employee built from the row.
GetEmployee(rows, id) ==
    IF \A r \in rows : r.employee_id # id THEN <<>>
    ELSE LET row == CHOOSE r \in rows : r.employee_id = id
         IN <<Employee(row.employee_id, row.name, row.department,
                       row.base_salary, row.bonus_rate, row.overtime_hours,
                       row.overtime_rate)>>

\* db_insert_or_update_employee(employee)
db_insert_or_update_employee(e, io_fail) ==
    /\ IF StoreFails(io_fail)
       THEN /\ UNCHANGED db_employees
            /\ result' = Call("db_insert_or_update_employee", e, <<>>, StorageError)
       ELSE /\ db_employees' = UpsertEmployee(db_employees, e)
            /\ result' = Call("db_insert_or_update_employee", e, <<>>, NoError)
    /\ UNCHANGED <<employees, financials, schema, db_financials, sessions>>

\* db_delete_employee(employee_id)
db_delete_employee(id, io_fail) ==
    /\ IF StoreFails(io_fail)
       THEN /\ UNCHANGED db_employees
            /\ result' = Call("db_delete_employee", id, <<>>, StorageError)
       ELSE /\ db_employees' = DeleteEmployee(db_employees, id)
            /\ result' = Call("db_delete_employee", id, <<>>, NoError)
    /\ UNCHANGED <<employees, financials, schema, db_financials, sessions>>

\* db_get_employee(employee_id)
db_get_employee(id, io_fail) ==
    /\ IF StoreFails(io_fail)
       THEN result' = CallAfter(result, "db_get_employee", id, <<>>, StorageError)
       ELSE result' = CallAfter(result, "db_get_employee", id,
                                GetEmployee(db_employees, id), NoError)
    /\ UNCHANGED <<employees, financials, schema, db_employees, db_financials, sessions>>

RECURSIVE OrderByEmployeeId(_)
\* SELECT * FROM employees ORDER BY employee_id: the rows as a sequence.
OrderByEmployeeId(rows) ==
    IF rows = {} THEN <<>>
    ELSE LET first == CHOOSE r \in rows :
                          \A q \in rows : r.employee_id <= q.employee_id
         IN <<first>> \o OrderByEmployeeId(rows \ {first})

RECURSIVE UpsertEmployees(_, _)
\* for e in emps: db_insert_or_update_employee(e), every call succeeding
UpsertEmployees(rows, emps) ==
    IF emps = <<>> THEN rows
    ELSE UpsertEmployees(UpsertEmployee(rows, Head(emps)), Tail(emps))

\* A sync inside one transaction: a failure rolls back the rows before it.
SyncEmployees_rollback(rows, emps, k) ==
    IF k = 0 THEN UpsertEmployees(rows, emps) ELSE rows

\* A sync that makes the table a mirror of the list: rows of other ids go.
SyncEmployees_mirror(rows, emps, k) ==
    IF k = 0 THEN UpsertEmployees({}, emps)
    ELSE UpsertEmployees(rows, SubSeq(emps, 1, k - 1))

\* The loop of db_sync_employees_from_memory when the k-th upsert raises
\* (k = 0: none does): the upserts before the k-th are committed one by one,
\* the exception leaves the loop.
SyncEmployees(rows, emps, k) ==
    IF k = 0 THEN UpsertEmployees(rows, emps)
    ELSE UpsertEmployees(rows, SubSeq(emps, 1, k - 1))

\* The k a sync of n entities can fail at: any call may fail, and without the
\* tables the first call does.
SyncFailures(n) == IF schema \/ n = 0 THEN 0..n ELSE {1}

\* db_sync_employees_from_memory(); the exception is the failing call's own
\* and carries nothing of the loop (ret is <<>>).
db_sync_employees_from_memory(k) ==
    /\ k \in SyncFailures(Len(employees))
    /\ db_employees' = SyncEmployees(db_employees, employees, k)
    /\ result' = Call("db_sync_employees_from_memory", k, <<>>,
                      IF k = 0 THEN NoError ELSE StorageError)
    /\ UNCHANGED <<employees, financials, schema, db_financials, sessions>>

\* A reload that appends the store's rows to the list.
ReloadEmployees_merge(mem, rows) ==
    LoadEmployees(mem, EmployeeColumns, OrderByEmployeeId(rows))

\* db_load_employees_to_memory() after the query: self.employees = [] and
\* load_employees_from_df(df).
ReloadEmployees(mem, rows) ==
    LoadEmployees(<<>>, EmployeeColumns, OrderByEmployeeId(rows))

\* db_load_employees_to_memory(): the query comes first, so a failing query
\* leaves the list alone.
db_load_employees_to_memory(io_fail) ==
    /\ IF StoreFails(io_fail)
       THEN /\ UNCHANGED employees
            /\ result' = Call("db_load_employees_to_memory", <<>>, <<>>,
                              StorageError)
       ELSE LET r == ReloadEmployees(employees, db_employees)
            IN /\ employees' = r.employees
               /\ result' = Call("db_load_employees_to_memory", <<>>, <<>>, r.err)
    /\ UNCHANGED <<financials, schema, db_employees, db_financials, sessions>>

\* An init_db that drops both tables and creates them anew.
init_db_recreate(io_fail) ==
    /\ IF io_fail
       THEN /\ UNCHANGED <<schema, db_employees, db_financials>>
            /\ result' = [op |-> "init_db", arg |-> <<>>, ret |-> <<>>,
                          err |-> "OperationalError", after |-> <<>>]
       ELSE /\ schema' = TRUE
            /\ db_employees' = {}
            /\ db_financials' = {}
            /\ result' = [op |-> "init_db", arg |-> <<>>, ret |-> <<>>,
                          err |-> "none", after |-> <<>>]
    /\ UNCHANGED <<employees, financials, sessions>>

\* init_db(): CREATE TABLE IF NOT EXISTS for both tables; existing tables and
\* their rows stay as they are.
init_db(io_fail) ==
    /\ IF io_fail
       THEN /\ UNCHANGED schema
            /\ result' = Call("init_db", <<>>, <<>>, StorageError)
       ELSE /\ schema' = TRUE
            /\ result' = Call("init_db", <<>>, <<>>, NoError)
    /\ UNCHANGED <<employees, financials, db_employees, db_financials, sessions>>

\* ------------------------------------------ financials, in memory (company.py)

\* date.strftime("%Y-%m-%d"): the day, the time of day dropped.
strftime(ts) == ts \div 100

\* pd.to_datetime(text) of a "%Y-%m-%d" text: midnight of that day.
to_datetime(text) == text * 100

\* The calendar month (yyyymm) of a Timestamp.
MonthOf(ts) == ts \div 10000

\* MonthlyFinancials(...) of one DataFrame row, as load_financials_from_df
\* builds it; the date cell is a Timestamp already.
FinancialsFromRow(cols, r) ==
    IF "date" \notin cols THEN [err |-> "KeyError", value |-> r]
    ELSE IF "revenue" \notin cols THEN [err |-> "KeyError", value |-> r]
    ELSE IF r.revenue = NonNumeric THEN [err |-> "ValueError", value |-> r]
    ELSE IF "cogs" \notin cols THEN [err |-> "KeyError", value |-> r]
    ELSE IF r.cogs = NonNumeric THEN [err |-> "ValueError", value |-> r]
    ELSE IF "salary_expense" \notin cols THEN [err |-> "KeyError", value |-> r]
    ELSE IF r.salary_expense = NonNumeric THEN [err |-> "ValueError", value |-> r]
    ELSE IF "other_expense" \notin cols THEN [err |-> "KeyError", value |-> r]
    ELSE IF r.other_expense = NonNumeric THEN [err |-> "ValueError", value |-> r]
    ELSE [err |-> NoError,
          value |-> MonthlyFinancials(r.date, r.revenue, r.cogs,
                                      r.salary_expense, r.other_expense)]

RECURSIVE LoadFinancials(_, _, _)
\* The loop of load_financials_from_df on the list mem.
LoadFinancials(mem, cols, rows) ==
    IF rows = <<>> THEN [financials |-> mem, err |-> NoError]
    ELSE LET f == FinancialsFromRow(cols, Head(rows))
         IN IF f.err # NoError
            THEN [financials |-> mem, err |-> f.err]
            ELSE LoadFinancials(Append(mem, f.value), cols, Tail(rows))

\* load_financials_from_df(df)
load_financials_from_df(cols, rows) ==
    /\ Len(financials) + Len(rows) <= MaxFinancials
    /\ LET r == LoadFinancials(financials, cols, rows)
       IN /\ financials' = r.financials
          /\ result' = Call("load_financials_from_df", <<>>, <<>>, r.err)
    /\ UNCHANGED <<employees, schema, db_employees, db_financials, sessions>>

\* ----------------------------------------------- financials table (company.py)

\* The row bound to the INSERT: the date as text.  The table's surrogate id
\* is read by no operation and is not kept.
FinancialsRow(mf) ==
    [date |-> strftime(mf.date), revenue |-> mf.revenue, cogs |-> mf.cogs,
     salary_expense |-> mf.salary_expense, other_expense |-> mf.other_expense]

\* INSERT INTO financials ... ON CONFLICT(date) DO UPDATE SET the four amounts
UpsertFinancials(rows, mf) ==
    LET new == FinancialsRow(mf)
    IN IF \E r \in rows : r.date = new.date
       THEN { IF r.date = new.date
              THEN [r EXCEPT !.revenue = new.revenue, !.cogs = new.cogs,
                             !.salary_expense = new.salary_expense,
                             !.other_expense = new.other_expense]
              ELSE r : r \in rows }
       ELSE rows \cup {new}

\* DELETE FROM financials WHERE date = ?
DeleteFinancials(rows, ts) == {r \in rows : r.date # strftime(ts)}

\* db_insert_or_update_financials(mf)
db_insert_or_update_financials(mf, io_fail) ==
    /\ IF StoreFails(io_fail)
       THEN /\ UNCHANGED db_financials
            /\ result' = Call("db_insert_or_update_financials", mf, <<>>,
                              StorageError)
       ELSE /\ db_financials' = UpsertFinancials(db_financials, mf)
            /\ result' = Call("db_insert_or_update_financials", mf, <<>>, NoError)
    /\ UNCHANGED <<employees, financials, schema, db_employees, sessions>>

\* db_delete_financials_by_date(date)
db_delete_financials_by_date(ts, io_fail) ==
    /\ IF StoreFails(io_fail)
       THEN /\ UNCHANGED db_financials
            /\ result' = Call("db_delete_financials_by_date", ts, <<>>,
                              StorageError)
       ELSE /\ db_financials' = DeleteFinancials(db_financials, ts)
            /\ result' = Call("db_delete_financials_by_date", ts, <<>>, NoError)
    /\ UNCHANGED <<employees, financials, schema, db_employees, sessions>>

RECURSIVE OrderByDate(_)
\* SELECT * FROM financials ORDER BY date: the rows as a sequence.
OrderByDate(rows) ==
    IF rows = {} THEN <<>>
    ELSE LET first == CHOOSE r \in rows : \A q \in rows : r.date <= q.date
         IN <<first>> \o OrderByDate(rows \ {first})

\* db_list_financials(): the ordered rows, df["date"] = pd.to_datetime(df["date"])
db_list_financials(rows) ==
    LET ordered == OrderByDate(rows)
    IN [i \in 1..Len(ordered) |->
            [ordered[i] EXCEPT !.date = to_datetime(ordered[i].date)]]

RECURSIVE UpsertAllFinancials(_, _)
\* for mf in fins: db_insert_or_update_financials(mf), every call succeeding
UpsertAllFinancials(rows, fins) ==
    IF fins = <<>> THEN rows
    ELSE UpsertAllFinancials(UpsertFinancials(rows, Head(fins)), Tail(fins))

\* The loop of db_sync_financials_from_memory when the k-th upsert raises
\* (k = 0: none does).
SyncFinancials(rows, fins, k) ==
    IF k = 0 THEN UpsertAllFinancials(rows, fins)
    ELSE UpsertAllFinancials(rows, SubSeq(fins, 1, k - 1))

\* db_sync_financials_from_memory()
db_sync_financials_from_memory(k) ==
    /\ k \in SyncFailures(Len(financials))
    /\ db_financials' = SyncFinancials(db_financials, financials, k)
    /\ result' = Call("db_sync_financials_from_memory", k, <<>>,
                      IF k = 0 THEN NoError ELSE StorageError)
    /\ UNCHANGED <<employees, financials, schema, db_employees, sessions>>

\* db_load_financials_to_memory() after db_list_financials():
\* self.financials = [] and load_financials_from_df(df).
ReloadFinancials(mem, rows) ==
    LoadFinancials(<<>>, FinancialColumns, db_list_financials(rows))

\* db_load_financials_to_memory()
db_load_financials_to_memory(io_fail) ==
    /\ IF StoreFails(io_fail)
       THEN /\ UNCHANGED financials
            /\ result' = Call("db_load_financials_to_memory", <<>>, <<>>,
                              StorageError)
       ELSE LET r == ReloadFinancials(financials, db_financials)
            IN /\ financials' = r.financials
               /\ result' = Call("db_load_financials_to_memory", <<>>, <<>>, r.err)
    /\ UNCHANGED <<employees, schema, db_employees, db_financials, sessions>>

\* -------------------------------------------- department_salary_breakdown

RECURSIVE DepartmentRecords(_, _)
\* The dict records of department_salary_breakdown, as the sequence of its
\* items: a department enters at its first employee (setdefault) and its
\* total grows by each employee's total_monthly_compensation.
DepartmentRecords(emps, acc) ==
    IF emps = <<>> THEN acc
    ELSE LET e == Head(emps)
             t == total_monthly_compensation(e)
             next == IF \E i \in 1..Len(acc) : acc[i].department = e.department
                     THEN [i \in 1..Len(acc) |->
                              IF acc[i].department = e.department
                              THEN [acc[i] EXCEPT !.total_monthly_salary = @ + t]
                              ELSE acc[i]]
                     ELSE Append(acc, [department |-> e.department,
                                       total_monthly_salary |-> t])
         IN DepartmentRecords(Tail(emps), next)

RECURSIVE SortValuesDescending(_)
\* DataFrame.sort_values("total_monthly_salary", ascending=False) and
\* reset_index: for the few rows here the sort keeps rows of equal total in
\* the order they had (each row goes after the rows that are not smaller).
SortValuesDescending(recs) ==
    IF recs = <<>> THEN <<>>
    ELSE LET n == Len(recs)
             x == recs[n]
             s == SortValuesDescending(SubSeq(recs, 1, n - 1))
             k == Cardinality({i \in 1..Len(s) :
                      s[i].total_monthly_salary >= x.total_monthly_salary})
         IN SubSeq(s, 1, k) \o <<x>> \o SubSeq(s, k + 1, Len(s))

\* department_salary_breakdown(); with no employee the DataFrame has no
\* column to sort by and sort_values raises KeyError.
department_salary_breakdown ==
    /\ IF employees = <<>>
       THEN result' = Call("department_salary_breakdown", <<>>, <<>>, "KeyError")
       ELSE result' = Call("department_salary_breakdown", <<>>,
                           SortValuesDescending(DepartmentRecords(employees, <<>>)),
                           NoError)
    /\ UNCHANGED <<employees, financials, schema, db_employees, db_financials, sessions>>

\* ------------------------------------ build_company (main_app.py, app_streamlit.py)

\* load_financial_data(path): the frame read from the file, a profit column
\* computed from the four amounts when the file has none; that raises
\* KeyError on an absent column and TypeError on a cell that is not numeric.
load_financial_data(cols, rows) ==
    IF "profit" \in cols THEN NoError
    ELSE IF ~({"revenue", "cogs", "salary_expense", "other_expense"} \subseteq cols)
         THEN "KeyError"
    ELSE IF \E i \in 1..Len(rows) :
               NonNumeric \in {rows[i].revenue, rows[i].cogs,
                               rows[i].salary_expense, rows[i].other_expense}
         THEN "TypeError"
    ELSE NoError

\* build_company(financial_path, employees_path): a new Company, both loads,
\* init_db and the two syncs; the first call that raises ends it and no
\* Company is returned (the lists are then empty: the caller holds none).
\* io_fail fails init_db; ke and kf choose the upsert each sync fails at, 0
\* for none.
build_company(ecols, erows, fcols, frows, io_fail, ke, kf) ==
    LET read == load_financial_data(fcols, frows)
        le == LoadEmployees(<<>>, ecols, erows)
        lf == LoadFinancials(<<>>, fcols, frows)
        loaded == read = NoError /\ le.err = NoError /\ lf.err = NoError
        initialised == loaded /\ ~io_fail
        synced_e == initialised /\ ke = 0
        synced == synced_e /\ kf = 0
    IN /\ Len(erows) <= MaxEmployees /\ Len(frows) <= MaxFinancials
       /\ ke \in (IF initialised THEN 0..Len(le.employees) ELSE {0})
       /\ kf \in (IF synced_e THEN 0..Len(lf.financials) ELSE {0})
       /\ schema' = (schema \/ initialised)
       /\ db_employees' = IF initialised
                          THEN SyncEmployees(db_employees, le.employees, ke)
                          ELSE db_employees
       /\ db_financials' = IF synced_e
                           THEN SyncFinancials(db_financials, lf.financials, kf)
                           ELSE db_financials
       /\ employees' = IF synced THEN le.employees ELSE <<>>
       /\ financials' = IF synced THEN lf.financials ELSE <<>>
       /\ result' = Call("build_company",
                         IF synced THEN <<erows, frows>> ELSE <<>>, <<>>,
                         IF read # NoError THEN read
                         ELSE IF le.err # NoError THEN le.err
                         ELSE IF lf.err # NoError THEN lf.err
                         ELSE IF synced THEN NoError ELSE StorageError)
       /\ UNCHANGED sessions

\* ------------------------------------------------ profit table (company.py)

RECURSIVE gcd(_, _)
\* Greatest common divisor of two naturals.
gcd(a, b) == IF b = 0 THEN a ELSE gcd(b, a % b)

\* The float n / d (d # 0), kept exact: the fraction in lowest terms with a
\* positive denominator.
Quotient(n, d) ==
    LET g == gcd(IF n < 0 THEN -n ELSE n, IF d < 0 THEN -d ELSE d)
        s == IF d < 0 THEN -1 ELSE 1
    IN [num |-> (s * n) \div g, den |-> (s * d) \div g]

\* The float 0.0.
Zero == [num |-> 0, den |-> 1]

\* MonthlyFinancials.profit
profit(f) == f.revenue - f.cogs - f.salary_expense - f.other_expense

\* MonthlyFinancials.profit_margin
profit_margin(f) == IF f.revenue # 0 THEN Quotient(profit(f), f.revenue) ELSE Zero

\* The dict monthly_profit_df appends for one record.
ProfitRecord(f) ==
    [date |-> f.date, revenue |-> f.revenue, cogs |-> f.cogs,
     salary_expense |-> f.salary_expense, other_expense |-> f.other_expense,
     profit |-> profit(f), profit_margin |-> profit_margin(f)]

RECURSIVE SortValuesByDate(_)
\* DataFrame.sort_values("date") and reset_index(drop=True): ascending, rows
\* of equal date in the order they had.
SortValuesByDate(recs) ==
    IF recs = <<>> THEN <<>>
    ELSE LET n == Len(recs)
             x == recs[n]
             s == SortValuesByDate(SubSeq(recs, 1, n - 1))
             k == Cardinality({i \in 1..Len(s) : s[i].date <= x.date})
         IN SubSeq(s, 1, k) \o <<x>> \o SubSeq(s, k + 1, Len(s))

\* A monthly_profit_df that returns the records in list order.
monthly_profit_df_unsorted(fins) ==
    IF fins = <<>> THEN [err |-> "KeyError", df |-> <<>>]
    ELSE [err |-> "none", df |-> [i \in 1..Len(fins) |-> ProfitRecord(fins[i])]]

\* monthly_profit_df() of the list fins; with no record the DataFrame has no
\* date column and sort_values raises KeyError.
monthly_profit_df_value(fins) ==
    IF fins = <<>> THEN [err |-> "KeyError", df |-> <<>>]
    ELSE [err |-> NoError,
          df |-> SortValuesByDate([i \in 1..Len(fins) |-> ProfitRecord(fins[i])])]

\* monthly_profit_df()
monthly_profit_df ==
    /\ LET t == monthly_profit_df_value(financials)
       IN result' = Call("monthly_profit_df", <<>>, t.df, t.err)
    /\ UNCHANGED <<employees, financials, schema, db_employees, db_financials,
                   sessions>>

\* Column c of the frame df, as the sequence of its values.
Column(df, c) == [i \in 1..Len(df) |-> df[i][c]]

\* format(x, ".2%") of the float n / d (d > 0): the hundredths of a percent
\* nearest to it, a tie going to the even one.
FormatPercent(q) ==
    LET n == 10000 * q.num
        whole == n \div q.den
        rest == n % q.den
    IN IF 2 * rest < q.den THEN whole
       ELSE IF 2 * rest > q.den THEN whole + 1
       ELSE IF whole % 2 = 0 THEN whole ELSE whole + 1

\* summary(): the numbers the text reports, as formatted: the totals with
\* two decimals (in hundredths), the margin in hundredths of a percent.
summary_value(emps, df) ==
    LET total_revenue == sum(Column(df, "revenue"))
        total_profit == sum(Column(df, "profit"))
        avg_margin == IF total_revenue # 0
                      THEN Quotient(total_profit, total_revenue) ELSE Zero
    IN [employees |-> Len(emps),
        total_revenue |-> 100 * total_revenue,
        total_profit |-> 100 * total_profit,
        average_profit_margin |-> FormatPercent(avg_margin)]

\* -------------------------------------------------- analytics (analysis.py)

\* A Series mean: sum / count.
mean(s) == Quotient(sum(s), Len(s))

\* The per-row mean of the profit_margin column, times its length: the sum
\* of the fractions.
RECURSIVE SumOfQuotients(_)
SumOfQuotients(s) ==
    IF s = <<>> THEN Zero
    ELSE LET a == Head(s)
             b == SumOfQuotients(Tail(s))
         IN Quotient(a.num * b.den + b.num * a.den, a.den * b.den)

\* An avg_profit_margin that is the mean of the rows' margins.
avg_profit_margin_of_rows(df) ==
    LET t == SumOfQuotients(Column(df, "profit_margin"))
    IN Quotient(t.num, t.den * Len(df))

\* basic_kpis: avg_profit_margin, the ratio of the two sums, 0.0 when the
\* revenue sum is falsy.
avg_profit_margin(df) ==
    IF sum(Column(df, "revenue")) # 0
    THEN Quotient(sum(Column(df, "profit")), sum(Column(df, "revenue")))
    ELSE Zero

\* basic_kpis(df)
basic_kpis(df) ==
    [total_revenue |-> sum(Column(df, "revenue")),
     total_profit |-> sum(Column(df, "profit")),
     avg_profit_margin |-> avg_profit_margin(df),
     avg_salary_expense |-> mean(Column(df, "salary_expense"))]

\* page_overview(company, df_fin) after main()'s df_fin =
\* company.monthly_profit_df(): the summary text and the KPIs.
page_overview ==
    /\ LET t == monthly_profit_df_value(financials)
       IN IF t.err # NoError
          THEN result' = Call("page_overview", <<>>, <<>>, t.err)
          ELSE result' = Call("page_overview", t.df,
                              <<summary_value(employees, t.df), basic_kpis(t.df)>>,
                              NoError)
    /\ UNCHANGED <<employees, financials, schema, db_employees, db_financials,
                   sessions>>

\* ------------------------------------- page_salary_sim (app_streamlit.py)

\* The slider values tried: salary_pct, tax_rate_pct and other_exp_pct, at
\* the ends of their ranges and at the values of no change.
SalaryPercents == {-10, 0, 30}
TaxRatePercents == {0, 20, 50}
OtherExpensePercents == {-30, 0, 30}

\* The rate of tax_current, in percent (0.20).
BaselineTaxRate == 20

\* A clip that lets a loss through.
clip_none(x) == x

\* Series.clip(lower=0), on one value
clip_lower(x) == IF x < 0 THEN 0 ELSE x

\* A tax_current at a quarter.
tax_current_quarter(pbt) == (clip_lower(pbt) * 25) \div 100

\* df["tax_current"]: profit_before_tax_current.clip(lower=0) * 0.20.  Amounts
\* of the simulator's frame are in ten-thousandths, which keeps every product
\* by a percentage exact.
tax_current(pbt) == (clip_lower(pbt) * BaselineTaxRate) \div 100

\* df["tax_adj"]: profit_before_tax_adj.clip(lower=0) * tax_rate
tax_adj(pbt, tax_rate_pct) == (clip_lower(pbt) * tax_rate_pct) \div 100

\* One row of the simulator's frame df, from the row r of df_fin.
SimulatedRow(r, salary_pct, tax_rate_pct, other_exp_pct) ==
    LET salary_expense_adj == 100 * r.salary_expense * (100 + salary_pct)
        other_expense_adj == 100 * r.other_expense * (100 + other_exp_pct)
        before_current == 10000 * (r.revenue - r.cogs - r.salary_expense
                                   - r.other_expense)
        before_adj == 10000 * (r.revenue - r.cogs) - salary_expense_adj
                      - other_expense_adj
    IN [date |-> r.date,
        salary_expense |-> 10000 * r.salary_expense,
        other_expense |-> 10000 * r.other_expense,
        salary_expense_adj |-> salary_expense_adj,
        other_expense_adj |-> other_expense_adj,
        profit_before_tax_current |-> before_current,
        profit_before_tax_adj |-> before_adj,
        tax_current |-> tax_current(before_current),
        tax_adj |-> tax_adj(before_adj, tax_rate_pct),
        profit_after_tax_current |-> before_current - tax_current(before_current),
        profit_after_tax_adj |-> before_adj - tax_adj(before_adj, tax_rate_pct)]

\* One row of summary_df.
SummaryRow(metric, current, adjusted) ==
    [metric |-> metric, current |-> current, adjusted |-> adjusted,
     difference |-> adjusted - current]

\* The frame df and the summary_df of page_salary_sim.
page_salary_sim_value(df_fin, salary_pct, tax_rate_pct, other_exp_pct) ==
    LET df == [i \in 1..Len(df_fin) |->
                  SimulatedRow(df_fin[i], salary_pct, tax_rate_pct, other_exp_pct)]
        total(c) == sum(Column(df, c))
    IN [df |-> df,
        summary_df |->
          << SummaryRow("Total salary expense",
                        total("salary_expense"), total("salary_expense_adj")),
             SummaryRow("Total other operating expense",
                        total("other_expense"), total("other_expense_adj")),
             SummaryRow("Total tax expense",
                        total("tax_current"), total("tax_adj")),
             SummaryRow("Total profit after tax",
                        total("profit_after_tax_current"),
                        total("profit_after_tax_adj")) >>]

\* page_salary_sim(company, df_fin) with the three sliders set, after main()'s
\* df_fin = company.monthly_profit_df().
page_salary_sim(salary_pct, tax_rate_pct, other_exp_pct) ==
    /\ LET t == monthly_profit_df_value(financials)
           arg == <<salary_pct, tax_rate_pct, other_exp_pct>>
       IN IF t.err # NoError
          THEN result' = Call("page_salary_sim", arg, <<>>, t.err)
          ELSE result' = Call("page_salary_sim", arg,
                              <<page_salary_sim_value(t.df, salary_pct,
                                                      tax_rate_pct, other_exp_pct)>>,
                              NoError)
    /\ UNCHANGED <<employees, financials, schema, db_employees, db_financials,
                   sessions>>

\* ------------------------------------------ train_sales_model (analysis.py)

\* Timestamp.month and Timestamp.year
Month(ts) == (ts \div 10000) % 100
Year(ts) == ts \div 1000000

\* train_test_split's number of test rows for test_size=0.2: ceil(0.2 * n),
\* which the float product gives exactly for the lengths here.
TestRows(n) == (n + 4) \div 5

\* train_test_split(X, y, test_size=0.2, shuffle=False) on the rows of X and
\* y: the first n_train rows train, the n_test after them test; an empty
\* train set raises ValueError.
train_test_split(rows) ==
    LET n == Len(rows)
        n_test == TestRows(n)
        n_train == n - n_test
    IN IF n_train = 0
       THEN [err |-> "ValueError", train |-> <<>>, test |-> <<>>]
       ELSE [err |-> NoError, train |-> SubSeq(rows, 1, n_train),
             test |-> SubSeq(rows, n_train + 1, n_train + n_test)]

\* train_sales_model(df): the rows the model is fitted on and the rows held
\* out, each with its index label, its four features (X) and its revenue
\* (y).  The coefficients LinearRegression fits, the predictions and their
\* mean absolute error are numbers no statement here reads; they are left out.
train_sales_model(df) ==
    LET rows == [i \in 1..Len(df) |->
                    [index |-> i - 1,
                     month |-> Month(df[i].date), year |-> Year(df[i].date),
                     salary_expense |-> df[i].salary_expense,
                     other_expense |-> df[i].other_expense,
                     revenue |-> df[i].revenue]]
    IN train_test_split(rows)

\* page_model(company, df_fin) with the Train button pressed, after main()'s
\* df_fin = company.monthly_profit_df().
page_model ==
    /\ LET t == monthly_profit_df_value(financials)
       IN IF t.err # NoError
          THEN result' = Call("page_model", <<>>, <<>>, t.err)
          ELSE LET m == train_sales_model(t.df)
               IN IF m.err # NoError
                  THEN result' = Call("page_model", t.df, <<>>, m.err)
                  ELSE result' = Call("page_model", t.df,
                                      <<[train |-> m.train, test |-> m.test]>>,
                                      NoError)
    /\ UNCHANGED <<employees, financials, schema, db_employees, db_financials,
                   sessions>>

\* ------------------------------ page_employee_management (app_streamlit.py)

\* Every script run starts with main()'s company = build_company(...), which
\* st.cache_data answers with a copy of the Company it built: the run's list
\* is a copy of employees.  A run in the form handler op, between two of its
\* store calls:
Running(op, form, existing) ==
    [pc |-> op, existing |-> existing, form |-> form, employees |-> employees]

\* The Employee update_salary_form builds from the row it read.
UpdatedEmployee(existing, new_base_salary) ==
    Employee(existing.employee_id, existing.name, existing.department,
             new_base_salary, existing.bonus_rate, existing.overtime_hours,
             existing.overtime_rate)

\* The last store call of a form handler, company.db_load_employees_to_memory(),
\* and the handler's end: st.success, or st.error for an exception.
FinishWithLoad(a, op, io_fail) ==
    /\ IF StoreFails(io_fail)
       THEN /\ sessions' = [sessions EXCEPT ![a] = Idle(sessions[a].employees)]
            /\ result' = Call(op, <<a>> \o sessions[a].form, <<>>, StorageError)
       ELSE LET r == ReloadEmployees(sessions[a].employees, db_employees)
            IN /\ sessions' = [sessions EXCEPT ![a] = Idle(r.employees)]
               /\ result' = Call(op, <<a>> \o sessions[a].form, <<>>, r.err)
    /\ UNCHANGED <<employees, financials, schema, db_employees, db_financials>>

\* add_update_employee submitted with the fields of e: the check of name and
\* department, and company.db_insert_or_update_employee(emp).
save_employee(a, e, io_fail) ==
    /\ sessions[a].pc = "idle"
    /\ IF e.name = "" \/ e.department = ""
       THEN /\ UNCHANGED db_employees
            /\ sessions' = [sessions EXCEPT ![a] = Idle(employees)]
            /\ result' = Call("save_employee", <<a, e>>, <<>>, "required")
       ELSE IF StoreFails(io_fail)
       THEN /\ UNCHANGED db_employees
            /\ sessions' = [sessions EXCEPT ![a] = Idle(employees)]
            /\ result' = Call("save_employee", <<a, e>>, <<>>, StorageError)
       ELSE /\ db_employees' = UpsertEmployee(db_employees, e)
            /\ sessions' = [sessions EXCEPT
                               ![a] = Running("save_employee", <<e>>, <<>>)]
            /\ result' = Call("save_employee", <<a, e>>, <<>>, "running")
    /\ UNCHANGED <<employees, financials, schema, db_financials>>

\* ... and its company.db_load_employees_to_memory()
save_employee_load(a, io_fail) ==
    /\ sessions[a].pc = "save_employee"
    /\ FinishWithLoad(a, "save_employee", io_fail)

\* update_salary_form submitted: existing = company.db_get_employee(id), and
\* st.error when it is None.
update_salary(a, id, new_base_salary, io_fail) ==
    /\ sessions[a].pc = "idle"
    /\ LET arg == <<a, id, new_base_salary>>
           existing == GetEmployee(db_employees, id)
       IN IF StoreFails(io_fail)
          THEN /\ sessions' = [sessions EXCEPT ![a] = Idle(employees)]
               /\ result' = Call("update_salary", arg, <<>>, StorageError)
          ELSE IF existing = <<>>
          THEN /\ sessions' = [sessions EXCEPT ![a] = Idle(employees)]
               /\ result' = Call("update_salary", arg, <<>>, "No employee found")
          ELSE /\ sessions' = [sessions EXCEPT
                                  ![a] = Running("update_salary",
                                                 <<id, new_base_salary>>, existing)]
               /\ result' = Call("update_salary", arg, <<>>, "running")
    /\ UNCHANGED <<employees, financials, schema, db_employees, db_financials>>

\* An update that sets base_salary in the row the table holds now (UPDATE
\* employees SET base_salary = ? WHERE employee_id = ?).
update_salary_upsert_in_place(a, io_fail) ==
    /\ sessions[a].pc = "update_salary"
    /\ sessions[a].existing # <<>>
    /\ LET id == sessions[a].form[1]
           new == sessions[a].form[2]
       IN IF ~schema \/ io_fail
          THEN /\ UNCHANGED db_employees
               /\ sessions' = [sessions EXCEPT ![a] = Idle(sessions[a].employees)]
               /\ result' = [op |-> "update_salary", arg |-> <<a, id, new>>,
                             ret |-> <<>>, err |-> "OperationalError",
                             after |-> <<>>]
          ELSE /\ db_employees' =
                     { IF r.employee_id = id THEN [r EXCEPT !.base_salary = new]
                       ELSE r : r \in db_employees }
               /\ sessions' = [sessions EXCEPT ![a].existing = <<>>]
               /\ result' = [op |-> "update_salary", arg |-> <<a, id, new>>,
                             ret |-> <<>>, err |-> "running",
                             after |-> [read |-> sessions[a].existing,
                                        row |-> <<>>]]
    /\ UNCHANGED <<employees, financials, schema, db_financials>>

\* ... its company.db_insert_or_update_employee(updated); the call records
\* the value the handler had read and the row the table held for the id when
\* the write came.
update_salary_upsert(a, io_fail) ==
    /\ sessions[a].pc = "update_salary"
    /\ sessions[a].existing # <<>>
    /\ LET id == sessions[a].form[1]
           new_base_salary == sessions[a].form[2]
           updated == UpdatedEmployee(sessions[a].existing[1], new_base_salary)
       IN IF StoreFails(io_fail)
          THEN /\ UNCHANGED db_employees
               /\ sessions' = [sessions EXCEPT ![a] = Idle(sessions[a].employees)]
               /\ result' = Call("update_salary", <<a, id, new_base_salary>>,
                                 <<>>, StorageError)
          ELSE /\ db_employees' = UpsertEmployee(db_employees, updated)
               /\ sessions' = [sessions EXCEPT ![a].existing = <<>>]
               /\ result' = [Call("update_salary", <<a, id, new_base_salary>>,
                                  <<updated>>, "running")
                             EXCEPT !.after =
                                 [read |-> sessions[a].existing,
                                  row |-> GetEmployee(db_employees, id)]]
    /\ UNCHANGED <<employees, financials, schema, db_financials>>

\* ... and its company.db_load_employees_to_memory()
update_salary_load(a, io_fail) ==
    /\ sessions[a].pc = "update_salary"
    /\ sessions[a].existing = <<>>
    /\ FinishWithLoad(a, "update_salary", io_fail)

\* delete_employee_form submitted: st.warning without the confirmation, else
\* company.db_delete_employee(id).
delete_employee(a, id, confirm, io_fail) ==
    /\ sessions[a].pc = "idle"
    /\ IF ~confirm
       THEN /\ UNCHANGED db_employees
            /\ sessions' = [sessions EXCEPT ![a] = Idle(employees)]
            /\ result' = Call("delete_employee", <<a, id>>, <<>>, "unconfirmed")
       ELSE IF StoreFails(io_fail)
       THEN /\ UNCHANGED db_employees
            /\ sessions' = [sessions EXCEPT ![a] = Idle(employees)]
            /\ result' = Call("delete_employee", <<a, id>>, <<>>, StorageError)
       ELSE /\ db_employees' = DeleteEmployee(db_employees, id)
            /\ sessions' = [sessions EXCEPT
                               ![a] = Running("delete_employee", <<id>>, <<>>)]
            /\ result' = Call("delete_employee", <<a, id>>, <<>>, "running")
    /\ UNCHANGED <<employees, financials, schema, db_financials>>

\* ... and its company.db_load_employees_to_memory()
delete_employee_load(a, io_fail) ==
    /\ sessions[a].pc = "delete_employee"
    /\ FinishWithLoad(a, "delete_employee", io_fail)

\* ------------------------------------------------------------ specifications

\* The DataFrames over the column sets colsets and the rows rowset.  A frame
\* that lacks a column every row needs raises at its first row, so such
\* frames are taken with one row at most.
Frames(colsets, needed, rowset) ==
    { f \in [cols : colsets, rows : SeqUpTo(rowset, MaxRows)] :
          needed \subseteq f.cols \/ Len(f.rows) <= 1 }

EmployeeFrames(rowset) ==
    Frames(EmployeeColumnSets,
           {"employee_id", "name", "department", "base_salary"}, rowset)

FinancialFrames(rowset) ==
    Frames(FinancialColumnSets,
           {"date", "revenue", "cogs", "salary_expense", "other_expense"}, rowset)

\* The calls on the employees list and the employees table, with employees
\* from emps and DataFrames from frames.
EmployeeCalls(emps, frames) ==
    \/ \E e \in emps : add_employee(e)
    \/ \E f \in frames : load_employees_from_df(f.cols, f.rows)
    \/ \E pct \in Percents : simulate_salary_increase(pct)
    \/ department_salary_breakdown
    \/ \E e \in emps, io_fail \in BOOLEAN : db_insert_or_update_employee(e, io_fail)
    \/ \E e \in emps, io_fail \in BOOLEAN :
           db_delete_employee(e.employee_id, io_fail)
    \/ \E e \in emps, io_fail \in BOOLEAN : db_get_employee(e.employee_id, io_fail)
    \/ \E k \in 0..MaxEmployees : db_sync_employees_from_memory(k)
    \/ \E io_fail \in BOOLEAN : db_load_employees_to_memory(io_fail)

\* The calls on the financials list and the financials table.
FinancialCalls(fins, frames) ==
    \/ \E f \in frames : load_financials_from_df(f.cols, f.rows)
    \/ \E mf \in fins, io_fail \in BOOLEAN :
           db_insert_or_update_financials(mf, io_fail)
    \/ \E mf \in fins, io_fail \in BOOLEAN :
           db_delete_financials_by_date(mf.date, io_fail)
    \/ \E k \in 0..MaxFinancials : db_sync_financials_from_memory(k)
    \/ \E io_fail \in BOOLEAN : db_load_financials_to_memory(io_fail)

AllEmployeeFrames == EmployeeFrames(EmployeeRows)

\* The employees half of a Company, over all of Employees.
NextEmployees ==
    \/ \E io_fail \in BOOLEAN : init_db(io_fail)
    \/ EmployeeCalls(Employees, AllEmployeeFrames)

SpecEmployees == Init /\ [][NextEmployees]_vars

AllFinancialFrames == FinancialFrames(FinancialRows)

\* The financials half of a Company, over all of Financials.
NextFinancials ==
    \/ \E io_fail \in BOOLEAN : init_db(io_fail)
    \/ FinancialCalls(Financials, AllFinancialFrames)

SpecFinancials == Init /\ [][NextFinancials]_vars

\* One employee per id, and one record per day.
SomeEmployees == {e \in Employees : e.name \in {"Ann", "Bob"}}
SomeFinancials == {mf \in Financials : mf.date \in {2024010112, 2024011500}}
SomeEmployeeFrames == EmployeeFrames(SomeEmployees \cup (EmployeeRows \ Employees))
SomeFinancialFrames ==
    FinancialFrames(SomeFinancials \cup (FinancialRows \ Financials))

\* The whole Company: the calls that change a list or a table, both halves
\* interleaved.
Next ==
    \/ \E io_fail \in BOOLEAN : init_db(io_fail)
    \/ \E e \in SomeEmployees : add_employee(e)
    \/ \E f \in SomeEmployeeFrames : load_employees_from_df(f.cols, f.rows)
    \/ \E e \in SomeEmployees, io_fail \in BOOLEAN :
           db_insert_or_update_employee(e, io_fail)
    \/ \E e \in SomeEmployees, io_fail \in BOOLEAN :
           db_delete_employee(e.employee_id, io_fail)
    \/ \E k \in 0..MaxEmployees : db_sync_employees_from_memory(k)
    \/ \E io_fail \in BOOLEAN : db_load_employees_to_memory(io_fail)
    \/ FinancialCalls(SomeFinancials, SomeFinancialFrames)

Spec == Init /\ [][Next]_vars

\* The tables a database file can hold: rows of distinct key.
EmployeeTables ==
    {t \in SUBSET SomeEmployees :
        \A r, q \in t : r.employee_id = q.employee_id => r = q}

FinancialTables ==
    {t \in SUBSET {FinancialsRow(mf) : mf \in SomeFinancials} :
        \A r, q \in t : r.date = q.date => r = q}

\* A process starts: no Company yet, and the database file earlier runs left
\* (none, or tables with any rows).
InitBuild ==
    /\ employees = <<>>
    /\ financials = <<>>
    /\ schema \in BOOLEAN
    /\ db_employees \in EmployeeTables
    /\ db_financials \in FinancialTables
    /\ ~schema => db_employees = {} /\ db_financials = {}
    /\ result = Call("__init__", <<>>, <<>>, NoError)
    /\ sessions = [a \in Actors |-> Idle(<<>>)]

\* The files build_company reads, of one row at least: employees of stored
\* ids with other values, a record of a stored day with other values, and a
\* bad row each.
CsvEmployeeFrames ==
    { f \in Frames({EmployeeColumns}, {},
                   {e \in EmployeeRows : e.name \in {"Anna", "Bo", "Eve"}}) :
          f.rows # <<>> }
CsvFinancialFrames ==
    { f \in Frames({FinancialColumns, FinancialColumns \cup {"profit"}}, {},
                   {mf \in FinancialRows : mf.date \in {2024010100, 2024011500}
                                           /\ mf.revenue # 0}) :
          f.rows # <<>> }

NextBuild ==
    \E ef \in CsvEmployeeFrames, ff \in CsvFinancialFrames :
        \E io_fail \in BOOLEAN :
            \E ke \in (IF io_fail THEN {0} ELSE 0..Len(ef.rows)) :
                \E kf \in (IF io_fail \/ ke # 0 THEN {0} ELSE 0..Len(ff.rows)) :
                    build_company(ef.cols, ef.rows, ff.cols, ff.rows,
                                  io_fail, ke, kf)

SpecBuild == InitBuild /\ [][NextBuild]_vars

\* The record of the i-th month of 2024 (midnight of its first day).  The
\* first two are the records of the KPI example, the third makes a loss, the
\* fourth has no revenue and makes a loss.
MonthlyRecord(i) ==
    LET date == 2024000100 + 10000 * i
    IN CASE i = 1 -> MonthlyFinancials(date, 1000, 400, 200, 100)
         [] i = 2 -> MonthlyFinancials(date, 1200, 450, 200, 120)
         [] i = 3 -> MonthlyFinancials(date, 500, 400, 200, 100)
         [] i = 4 -> MonthlyFinancials(date, 0, 0, 100, 0)
         [] OTHER -> MonthlyFinancials(date, 1000 + 100 * i, 400 + 10 * i, 200,
                                       100 + i)

\* The financials lists the analytics are run on: the first n months in
\* order, for every n, and every short list of the first four months'
\* records, in any order and with repeats (loads append).
Histories ==
    {[i \in 1..n |-> MonthlyRecord(i)] : n \in 0..MaxHistory}
    \cup SeqUpTo({MonthlyRecord(i) : i \in 1..4}, MaxRows)

\* A Company whose financials were loaded, before any store call.
InitAnalytics ==
    /\ employees \in SeqUpTo(SomeEmployees, 1)
    /\ financials \in Histories
    /\ schema = FALSE
    /\ db_employees = {}
    /\ db_financials = {}
    /\ result = Call("__init__", <<>>, <<>>, NoError)
    /\ sessions = [a \in Actors |-> Idle(<<>>)]

\* The reports and pages that read the profit table.
NextAnalytics ==
    \/ monthly_profit_df
    \/ page_overview
    \/ \E salary_pct \in SalaryPercents, tax_rate_pct \in TaxRatePercents,
          other_exp_pct \in OtherExpensePercents :
           page_salary_sim(salary_pct, tax_rate_pct, other_exp_pct)
    \/ page_model

SpecAnalytics == InitAnalytics /\ [][NextAnalytics]_vars

\* The Employees the save form is submitted with: of either id, and one
\* without a name.
FormEmployees == SomeEmployees \cup {e \in Employees : e.name = "Anna"}
                 \cup {Employee(2, "", "Ops", 1100, 0, 0, 0)}

\* The base salary the update form is submitted with.
NewBaseSalaries == {3000}

\* The dashboard is up: build_company has run (the tables exist and hold what
\* runs so far left), and its Company is in st.cache_data.
InitDashboard ==
    /\ employees \in SeqUpTo(SomeEmployees, 1)
    /\ financials = <<>>
    /\ schema = TRUE
    /\ db_employees \in EmployeeTables
    /\ db_financials = {}
    /\ result = Call("__init__", <<>>, <<>>, NoError)
    /\ sessions = [a \in Actors |-> Idle(employees)]

\* The forms of the employee management page, submitted by the actors of
\* actors.
FormCalls(actors) ==
    \E a \in actors, io_fail \in BOOLEAN :
        \/ \E e \in FormEmployees : save_employee(a, e, io_fail)
        \/ save_employee_load(a, io_fail)
        \/ \E id \in {1, 2}, new_base_salary \in NewBaseSalaries :
               update_salary(a, id, new_base_salary, io_fail)
        \/ update_salary_upsert(a, io_fail)
        \/ update_salary_load(a, io_fail)
        \/ \E id \in {1, 2}, confirm \in BOOLEAN :
               delete_employee(a, id, confirm, io_fail)
        \/ delete_employee_load(a, io_fail)

\* One actor at the dashboard.
NextSession == FormCalls({"a1"})

SpecSession == InitDashboard /\ [][NextSession]_vars

\* Two actors at the dashboard, each in a script run of their own; the
\* store calls of the two interleave.
NextDashboard == FormCalls(Actors)

SpecDashboard == InitDashboard /\ [][NextDashboard]_vars

\* ------------------------------------------------------------------ claims

\* The employees of a list, as a set.
Range(s) == {s[i] : i \in 1..Len(s)}

\* C1: db_insert_or_update_employee(e) followed by db_get_employee(e.employee_id)
\* returns an Employee equal to e in all seven fields, and db_delete_employee(id)
\* followed by db_get_employee(id) returns None, whatever the table held.
C1_RoundTrip ==
    (result.op = "db_get_employee" /\ result.err = NoError) =>
        LET before == result.after
        IN /\ (/\ before.op = "db_insert_or_update_employee"
               /\ before.err = NoError
               /\ before.arg.employee_id = result.arg)
              => result.ret = <<before.arg>>
           /\ (/\ before.op = "db_delete_employee"
               /\ before.err = NoError
               /\ before.arg = result.arg)
              => result.ret = <<>>

\* An upsert of Anna (id 1) was read back while the table also held id 2.
C1_Witness ==
    /\ result.op = "db_get_employee" /\ result.err = NoError
    /\ result.after.op = "db_insert_or_update_employee"
    /\ result.after.err = NoError
    /\ result.after.arg.name = "Anna"
    /\ result.arg = 1
    /\ result.ret # <<>>
    /\ Cardinality(db_employees) = 2

\* No two rows of the employees table have the same employee_id.
UniqueEmployeeIds ==
    \A r, q \in db_employees : r.employee_id = q.employee_id => r = q

\* C2: the employees table holds at most one row per employee_id, and a
\* db_insert_or_update_employee(e) leaves exactly the row e for e's id (every
\* non-key field replaced, no second row) and the rows of all other ids as
\* they were.
C2_UpsertReplaces ==
    [][ /\ UniqueEmployeeIds'
        /\ (result'.op = "db_insert_or_update_employee" /\ result'.err = NoError)
           => db_employees' =
                {r \in db_employees : r.employee_id # result'.arg.employee_id}
                \cup {result'.arg} ]_vars

\* Anna was upserted into a table that holds another id as well, and there
\* is one row for id 1; memory still has Ann under id 1.
C2_Witness ==
    /\ result.op = "db_insert_or_update_employee" /\ result.err = NoError
    /\ result.arg.name = "Anna"
    /\ Cardinality(db_employees) = 2
    /\ \E i \in 1..Len(employees) : employees[i].name = "Ann"

\* C3: neither the financials list nor the financials table holds two records
\* whose dates fall in the same calendar month.
C3_OneRecordPerMonth ==
    /\ \A i, j \in 1..Len(financials) :
          i # j => MonthOf(financials[i].date) # MonthOf(financials[j].date)
    /\ \A r, q \in db_financials :
          r # q => MonthOf(to_datetime(r.date)) # MonthOf(to_datetime(q.date))

\* C4: db_load_employees_to_memory / db_load_financials_to_memory is a full
\* reload: on return the list is exactly the table's rows, in ascending
\* employee_id (date) order, and holds nothing else.
C4_FullReload ==
    /\ (result.op = "db_load_employees_to_memory" /\ result.err = NoError) =>
          /\ Len(employees) = Cardinality(db_employees)
          /\ Range(employees) = db_employees
          /\ \A i, j \in 1..Len(employees) :
                i < j => employees[i].employee_id < employees[j].employee_id
    /\ (result.op = "db_load_financials_to_memory" /\ result.err = NoError) =>
          /\ Len(financials) = Cardinality(db_financials)
          /\ {[mf EXCEPT !.date = strftime(mf.date)] : mf \in Range(financials)}
                = db_financials
          /\ \A i \in 1..Len(financials) :
                financials[i].date = to_datetime(strftime(financials[i].date))
          /\ \A i, j \in 1..Len(financials) :
                i < j => financials[i].date < financials[j].date

\* A reload has brought two rows of the table into the list, in id order.
C4_Witness ==
    /\ result.op = "db_load_employees_to_memory" /\ result.err = NoError
    /\ Len(employees) = 2
    /\ employees[1].employee_id = 1 /\ employees[2].employee_id = 2
    /\ Len(financials) = 2 /\ Cardinality(db_financials) = 1

InMemoryMutators ==
    {"add_employee", "load_employees_from_df", "load_financials_from_df"}

StoreMutators ==
    {"db_insert_or_update_employee", "db_delete_employee",
     "db_insert_or_update_financials", "db_delete_financials_by_date"}

SyncCalls == {"db_sync_employees_from_memory", "db_sync_financials_from_memory"}

LoadFromStoreCalls == {"db_load_employees_to_memory", "db_load_financials_to_memory"}

\* C5: the in-memory mutators leave the tables as they are, the store mutators
\* leave the lists as they are, and a step that changes a table from the lists
\* or a list from the tables is a sync or a load-from-store call.
C5_NoReconciliation ==
    [][ /\ result'.op \in InMemoryMutators
           => UNCHANGED <<schema, db_employees, db_financials>>
        /\ result'.op \in StoreMutators => UNCHANGED <<employees, financials>>
        /\ <<employees, financials>>' # <<employees, financials>>
           => result'.op \in InMemoryMutators \cup LoadFromStoreCalls
        /\ <<db_employees, db_financials>>' # <<db_employees, db_financials>>
           => result'.op \in StoreMutators \cup SyncCalls ]_vars

\* An employee was added to the list while the table holds a different row
\* for that id: the two disagree.
C5_Witness ==
    /\ result.op = "add_employee"
    /\ Len(employees) = 1
    /\ db_employees # {} /\ employees[1] \notin db_employees
    /\ db_financials # {} /\ financials = <<>>

\* The employees table after the first n employees of emps were upserted
\* into rows: for an id among them the last of them, any other row as it was.
EmployeesPushed(rows, emps, n) ==
    {r \in rows : \A i \in 1..n : emps[i].employee_id # r.employee_id}
    \cup {emps[i] : i \in {i \in 1..n :
              \A j \in (i + 1)..n : emps[j].employee_id # emps[i].employee_id}}

\* The financials table after the first n records of fins were upserted.
FinancialsPushed(rows, fins, n) ==
    {r \in rows : \A i \in 1..n : strftime(fins[i].date) # r.date}
    \cup {FinancialsRow(fins[i]) : i \in {i \in 1..n :
              \A j \in (i + 1)..n :
                  strftime(fins[j].date) # strftime(fins[i].date)}}

\* The sync failed at the k-th entity: the upserts of the k - 1 before it are
\* in the table and no later one is.
SyncStoppedAt(k) ==
    /\ result'.op = "db_sync_employees_from_memory"
       => db_employees' = EmployeesPushed(db_employees, employees, k - 1)
    /\ result'.op = "db_sync_financials_from_memory"
       => db_financials' = FinancialsPushed(db_financials, financials, k - 1)

\* The identities of the first n entities of the list a sync call pushes.
PushedIdentities(op, n) ==
    IF op = "db_sync_employees_from_memory"
    THEN [i \in 1..n |-> employees[i].employee_id]
    ELSE [i \in 1..n |-> financials[i].date]

C7_AllOrNothing ==
    [][ (/\ result'.op \in InMemoryMutators \cup LoadFromStoreCalls
         /\ result'.err \in {"KeyError", "ValueError"})
        => UNCHANGED <<employees, financials>> ]_vars

\* C8 as stated: when build_company returns, the lists and the tables hold
\* the same entities.
C8_BidirectionalSync ==
    (result.op = "build_company" /\ result.err = NoError) =>
        /\ Range(employees) = db_employees
        /\ {FinancialsRow(mf) : mf \in Range(financials)} = db_financials

\* C8, amended: build_company performs ingestion, schema initialisation and a
\* one-way sync from memory to the store: when it returns the lists hold the
\* ingested rows, in order, and each table holds, for every identity in the
\* list, the last listed entity of that identity, and every other row it held
\* before; nothing is loaded back from the store.
C8_OneWaySync ==
    [][ (result'.op = "build_company" /\ result'.err = NoError) =>
            /\ schema'
            /\ employees' = result'.arg[1]
            /\ financials' = result'.arg[2]
            /\ db_employees' =
                  EmployeesPushed(db_employees, employees', Len(employees'))
            /\ db_financials' =
                  FinancialsPushed(db_financials, financials', Len(financials'))
      ]_vars

\* build_company has returned: the file's employee replaced the stored row of
\* its id, and the table keeps a row of an id the list does not have.
C8_Witness ==
    /\ result.op = "build_company" /\ result.err = NoError
    /\ employees # <<>> /\ financials # <<>>
    /\ Range(employees) \subseteq db_employees
    /\ \E r \in db_employees :
          \A i \in 1..Len(employees) : employees[i].employee_id # r.employee_id

\* The delta the claim describes, in ten-thousandths: the new compensation is
\* base_salary * (1 + pct), a bonus of bonus_rate on that new base, and the
\* unchanged overtime pay.
ClaimedSalaryIncrease(emps, pct) ==
    LET new(e) == 100 * e.base_salary * (100 + pct)
                  + e.bonus_rate * e.base_salary * (100 + pct)
                  + 10000 * monthly_overtime_pay(e)
    IN sum([i \in 1..Len(emps) |-> new(emps[i])])
       - 100 * total_monthly_salary_from_employees(emps)

\* C9: simulate_salary_increase(pct) returns new_total - current_total with
\* the bonus recomputed on the new base salary (110 for one employee with
\* base_salary 1000, bonus_rate 0.1, no overtime, pct 0.10).
C9_BonusOnNewBase ==
    result.op = "simulate_salary_increase" =>
        100 * result.ret[1] = ClaimedSalaryIncrease(employees, result.arg)

\* Department names in ascending order.
DepartmentNames == <<"Ops", "Sales">>

NameBefore(a, b) ==
    \E i, j \in 1..Len(DepartmentNames) :
        i < j /\ DepartmentNames[i] = a /\ DepartmentNames[j] = b

\* C10: department_salary_breakdown returns one row per department of the
\* list, its total the sum of its employees' total_monthly_compensation, the
\* rows by total descending and, for equal totals, by department ascending.
C10_TiesByName ==
    (result.op = "department_salary_breakdown" /\ result.err = NoError) =>
        LET rows == result.ret
            of(d) == SelectSeq(employees, LAMBDA e : e.department = d)
        IN /\ Len(rows) = Cardinality({e.department : e \in Range(employees)})
           /\ {rows[i].department : i \in 1..Len(rows)}
                 = {e.department : e \in Range(employees)}
           /\ \A i \in 1..Len(rows) :
                 rows[i].total_monthly_salary
                    = total_monthly_salary_from_employees(of(rows[i].department))
           /\ \A i, j \in 1..Len(rows) :
                 i < j =>
                    \/ rows[i].total_monthly_salary > rows[j].total_monthly_salary
                    \/ /\ rows[i].total_monthly_salary = rows[j].total_monthly_salary
                       /\ NameBefore(rows[i].department, rows[j].department)

\* The simulator has run on the sliders arg and returned its frames.
Simulated == result.op = "page_salary_sim" /\ result.err = NoError

\* C11: with salary_pct = 0, other_exp_pct = 0 and tax_rate_pct = 20 the
\* adjusted totals of salary expense, other expense, tax and profit after tax
\* equal the current totals, for every profit table, and every difference is 0.
C11_ZeroChange ==
    (Simulated /\ result.arg = <<0, 20, 0>>) =>
        LET summary_df == result.ret[1].summary_df
        IN /\ Len(summary_df) = 4
           /\ \A i \in 1..4 :
                 /\ summary_df[i].adjusted = summary_df[i].current
                 /\ summary_df[i].difference = 0

\* The zero-change scenario was run on a table with a loss month and taxed
\* months.
C11_Witness ==
    /\ Simulated /\ result.arg = <<0, 20, 0>>
    /\ Len(financials) >= 3
    /\ \E i \in 1..Len(financials) : profit(financials[i]) < 0
    /\ result.ret[1].summary_df[3].current > 0
    /\ result.ret[1].summary_df[1].current > 0

\* max(x, 0)
Floor0(x) == IF x > 0 THEN x ELSE 0

\* C12: in the simulator losses are never taxed: in every row, for every
\* chosen rate, tax_current is max(profit_before_tax_current, 0) at the fixed
\* 20% whatever the chosen rate, tax_adj is max(profit_before_tax_adj, 0) at
\* the chosen rate, neither is negative, and the profit after tax of a row
\* whose profit before tax is not positive is that profit before tax.
C12_LossesNotTaxed ==
    Simulated =>
        LET df == result.ret[1].df
            rate == result.arg[2]
        IN \A i \in 1..Len(df) :
              /\ 100 * df[i].tax_current = Floor0(df[i].profit_before_tax_current) * 20
              /\ 100 * df[i].tax_adj = Floor0(df[i].profit_before_tax_adj) * rate
              /\ df[i].tax_current >= 0 /\ df[i].tax_adj >= 0
              /\ df[i].profit_before_tax_current <= 0
                 => df[i].profit_after_tax_current = df[i].profit_before_tax_current
              /\ df[i].profit_before_tax_adj <= 0
                 => df[i].profit_after_tax_adj = df[i].profit_before_tax_adj
              /\ df[i].profit_after_tax_current
                    = df[i].profit_before_tax_current - df[i].tax_current
              /\ df[i].profit_after_tax_adj
                    = df[i].profit_before_tax_adj - df[i].tax_adj

\* The simulator ran at a rate of 50% on a table with a loss month, which
\* stays untaxed, and with a month the raise turns from a profit to less.
C12_Witness ==
    /\ Simulated /\ result.arg[2] = 50 /\ result.arg[1] = 30
    /\ \E i \in 1..Len(result.ret[1].df) :
          /\ result.ret[1].df[i].profit_before_tax_adj < 0
          /\ result.ret[1].df[i].tax_adj = 0
    /\ \E i \in 1..Len(result.ret[1].df) :
          /\ result.ret[1].df[i].tax_adj > result.ret[1].df[i].tax_current
          /\ result.ret[1].df[i].tax_current > 0

\* C13: train_sales_model on a profit table of n >= 2 records trains on a
\* leading prefix and holds out the complementary trailing suffix of the
\* table's order, no row in both and none dropped, so that every training
\* date is earlier than every held-out date; of 10 records the first 8 train
\* and the last 2 are held out.
C13_ChronologicalSplit ==
    (result.op = "page_model" /\ Len(financials) >= 2) =>
        /\ result.err = NoError
        /\ LET df == result.arg
               train == result.ret[1].train
               test == result.ret[1].test
               n == Len(df)
           IN /\ Len(train) >= 1 /\ Len(test) >= 1
              /\ Len(train) + Len(test) = n
              /\ \A i \in 1..Len(train) : train[i].index = i - 1
              /\ \A i \in 1..Len(test) : test[i].index = Len(train) + i - 1
              /\ \A i \in 1..Len(train), j \in 1..Len(test) :
                    df[train[i].index + 1].date < df[test[j].index + 1].date
              /\ n = 10 => Len(train) = 8 /\ Len(test) = 2

\* C14: train_sales_model on a table with fewer than 2 distinct records (no
\* record, one record, copies of one record) fails with an error and returns
\* no model.
C14_InsufficientData ==
    (result.op = "page_model" /\ Cardinality(Range(financials)) < 2) =>
        result.err # NoError /\ result.ret = <<>>

\* C15: basic_kpis returns the sums of revenue and of profit over the table
\* and, as avg_profit_margin, the ratio of the two sums, 0 when the revenue
\* sum is 0; on the two example records these are 2200, 730 and 730/2200;
\* the margin summary reports is that same ratio (to the two decimals of a
\* percentage it prints).
C15_AggregateMargin ==
    (result.op = "page_overview" /\ result.err = NoError) =>
        LET report == result.ret[1]
            kpis == result.ret[2]
            revenue == sum([i \in 1..Len(financials) |-> financials[i].revenue])
            total == sum([i \in 1..Len(financials) |->
                            financials[i].revenue - financials[i].cogs
                            - financials[i].salary_expense
                            - financials[i].other_expense])
            margin == kpis.avg_profit_margin
            off == 10000 * total - report.average_profit_margin * revenue
        IN /\ kpis.total_revenue = revenue
           /\ kpis.total_profit = total
           /\ margin.den > 0
           /\ revenue # 0 => margin.num * revenue = total * margin.den
           /\ revenue = 0 => margin.num = 0
           /\ revenue # 0 =>
                 2 * (IF off < 0 THEN -off ELSE off)
                    <= (IF revenue < 0 THEN -revenue ELSE revenue)
           /\ revenue = 0 => report.average_profit_margin = 0
           /\ financials = <<MonthlyFinancials(2024010100, 1000, 400, 200, 100),
                             MonthlyFinancials(2024020100, 1200, 450, 200, 120)>>
              => /\ kpis.total_revenue = 2200 /\ kpis.total_profit = 730
                 /\ margin = [num |-> 73, den |-> 220]
                 /\ report.average_profit_margin = 3318

\* The KPIs of the two example records were computed.
C15_Witness ==
    /\ result.op = "page_overview" /\ result.err = NoError
    /\ Len(financials) = 2
    /\ financials[1].revenue = 1000 /\ financials[2].revenue = 1200
    /\ result.ret[2].total_profit = 730

\* The five fields of a row of the profit table.
FieldsOf(r) ==
    MonthlyFinancials(r.date, r.revenue, r.cogs, r.salary_expense, r.other_expense)

\* C17: every row of monthly_profit_df carries profit = revenue - cogs -
\* salary_expense - other_expense and profit_margin = profit / revenue, 0 when
\* revenue is 0; the table has one row per in-memory record, and its rows are
\* in ascending date order whatever the order of the list.
C17_ProfitTable ==
    (result.op = "monthly_profit_df" /\ result.err = NoError) =>
        LET df == result.ret
        IN /\ Len(df) = Len(financials)
           /\ \A f \in Range(financials) :
                 Cardinality({i \in 1..Len(df) : FieldsOf(df[i]) = f})
                    = Cardinality({i \in 1..Len(financials) : financials[i] = f})
           /\ \A i \in 1..Len(df) :
                 /\ df[i].profit = df[i].revenue - df[i].cogs
                                   - df[i].salary_expense - df[i].other_expense
                 /\ df[i].profit_margin.den > 0
                 /\ df[i].revenue # 0 =>
                       df[i].profit_margin.num * df[i].revenue
                          = df[i].profit * df[i].profit_margin.den
                 /\ df[i].revenue = 0 => df[i].profit_margin.num = 0
           /\ \A i, j \in 1..Len(df) : i < j => df[i].date <= df[j].date

\* The table was made of a list that is not in date order and has a record
\* without revenue.
C17_Witness ==
    /\ result.op = "monthly_profit_df" /\ result.err = NoError
    /\ Len(financials) = 2
    /\ financials[1].date > financials[2].date
    /\ financials[1].revenue = 0
    /\ result.ret[2].profit_margin = Zero
    /\ result.ret[2].profit < 0

\* C16: init_db is idempotent and non-destructive: whenever it is called,
\* after any upserts and deletes, every row of the employees and financials
\* tables (and both lists) stays as it was, existing tables stay, and a call
\* that follows a successful call changes nothing at all.
C16_InitDbIdempotent ==
    [][ result'.op = "init_db" =>
            /\ UNCHANGED <<db_employees, db_financials, employees, financials>>
            /\ schema => schema'
            /\ result'.err = NoError => schema'
            /\ (result.op = "init_db" /\ result.err = NoError)
               => UNCHANGED <<schema, db_employees, db_financials>> ]_vars

\* init_db has returned on tables that upserts had filled: the rows are there.
C16_Witness ==
    /\ result.op = "init_db" /\ result.err = NoError
    /\ schema
    /\ db_employees # {} /\ db_financials # {}
    /\ Cardinality(db_employees) = 2

\* The employee_ids of a list, and of a table.
IdsOf(emps) == {emps[i].employee_id : i \in 1..Len(emps)}
KeysOf(rows) == {r.employee_id : r \in rows}

\* C20: db_sync_employees_from_memory only adds or overwrites: after a
\* successful call the ids in the table are those it held and those of the
\* list, rows of ids that are not in the list are unchanged, and the row of an
\* id of the list is the last employee of that id in list order; and a
\* db_load_employees_to_memory right after it gives back the list as it was
\* only if the list had distinct ids and the table held no other id.
C20_SyncAddsOrOverwrites ==
    [][ /\ (result'.op = "db_sync_employees_from_memory" /\ result'.err = NoError)
           => /\ UNCHANGED employees
              /\ KeysOf(db_employees') = KeysOf(db_employees) \cup IdsOf(employees)
              /\ \A r \in db_employees :
                    r.employee_id \notin IdsOf(employees) => r \in db_employees'
              /\ \A i \in 1..Len(employees) :
                    (\A j \in (i + 1)..Len(employees) :
                        employees[j].employee_id # employees[i].employee_id)
                    => employees[i] \in db_employees'
              /\ Cardinality(db_employees') = Cardinality(KeysOf(db_employees'))
        /\ (/\ result.op = "db_sync_employees_from_memory" /\ result.err = NoError
            /\ result'.op = "db_load_employees_to_memory" /\ result'.err = NoError
            /\ employees' = employees)
           => /\ Cardinality(IdsOf(employees)) = Len(employees)
              /\ KeysOf(db_employees) \subseteq IdsOf(employees) ]_vars

\* A sync has pushed a list with two employees of one id into a table that
\* held a row of another id: the table has the second of the two, and the
\* other row still.
C20_Witness ==
    /\ result.op = "db_sync_employees_from_memory" /\ result.err = NoError
    /\ Len(employees) = 2
    /\ employees[1].employee_id = employees[2].employee_id
    /\ employees[1] # employees[2]
    /\ employees[2] \in db_employees /\ employees[1] \notin db_employees
    /\ Cardinality(db_employees) = 2

\* Actor a's update-salary handler reads in this step.
UpdateReads(a) ==
    /\ sessions[a].pc = "idle"
    /\ sessions'[a].pc = "update_salary"

\* Actor a's update-salary handler writes in this step.
UpdateWrites(a) ==
    /\ sessions[a].pc = "update_salary" /\ sessions[a].existing # <<>>
    /\ sessions'[a].pc = "update_salary" /\ sessions'[a].existing = <<>>

\* C18: the dashboard's update-salary is a db_get_employee and, in a later
\* step, a db_insert_or_update_employee of a replacement built from the
\* value read: whatever the table holds for the id when the write comes (a
\* row another actor changed since the read, or none after a delete), the
\* write leaves a row with the name, department, bonus and overtime fields of
\* the value read and the new base salary, and every other row as it was.
C18_StaleWrite ==
    [][ \A a \in Actors :
          /\ UpdateReads(a) =>
                /\ UNCHANGED db_employees
                /\ sessions'[a].existing[1] \in db_employees
                /\ sessions'[a].existing[1].employee_id = sessions'[a].form[1]
          /\ UpdateWrites(a) =>
                LET read == sessions[a].existing[1]
                    id == sessions[a].form[1]
                    row == CHOOSE r \in db_employees' : r.employee_id = id
                IN /\ read.employee_id = id
                   /\ Cardinality({r \in db_employees' : r.employee_id = id}) = 1
                   /\ row.base_salary = sessions[a].form[2]
                   /\ row.name = read.name
                   /\ row.department = read.department
                   /\ row.bonus_rate = read.bonus_rate
                   /\ row.overtime_hours = read.overtime_hours
                   /\ row.overtime_rate = read.overtime_rate
                   /\ {r \in db_employees' : r.employee_id # id}
                         = {r \in db_employees : r.employee_id # id} ]_vars

\* A lost update: between an actor's read and its write the other actor
\* saved the employee under another name and department; the write has put
\* the name and department read before back.
C18_Witness ==
    /\ result.op = "update_salary" /\ result.ret # <<>>
    /\ result.after.row # <<>>
    /\ result.after.row[1].name # result.after.read[1].name
    /\ result.after.row[1].department # result.after.read[1].department
    /\ result.ret[1] \in db_employees
    /\ result.ret[1].name = result.after.read[1].name
    /\ result.after.row[1] \notin db_employees

\* A form handler of the page has ended without an error.
FormDone(op) == result'.op = op /\ result'.err = NoError

\* C19: with one actor, when a form handler of the employee management page
\* ends without an error the list of the Company it holds has exactly the
\* rows of the employees table: a saved employee is in both, an updated
\* salary is in both, a deleted id is in neither; and an update-salary for
\* an id the table does not have changes neither.
C19_MemoryEqualsStore ==
    [][ LET mem == sessions'["a1"].employees
        IN /\ (FormDone("save_employee") \/ FormDone("update_salary")
               \/ FormDone("delete_employee"))
              => /\ sessions'["a1"].pc = "idle"
                 /\ Range(mem) = db_employees'
                 /\ Len(mem) = Cardinality(db_employees')
           /\ FormDone("save_employee") => result'.arg[2] \in db_employees'
           /\ FormDone("update_salary") =>
                 \E r \in db_employees' : /\ r.employee_id = result'.arg[2]
                                          /\ r.base_salary = result'.arg[3]
           /\ FormDone("delete_employee") =>
                 /\ result'.arg[2] \notin KeysOf(db_employees')
                 /\ result'.arg[2] \notin IdsOf(mem)
           /\ (result'.op = "update_salary" /\ result'.err = "No employee found")
              => /\ UNCHANGED db_employees
                 /\ mem = employees
                 /\ sessions'["a1"].pc = "idle" ]_vars

\* A delete has ended: the Company the run started with had the employee,
\* the list and the table no longer have it, and both have another one.
C19_Witness ==
    /\ result.op = "delete_employee" /\ result.err = NoError
    /\ result.arg[2] \in IdsOf(employees)
    /\ result.arg[2] \notin IdsOf(sessions["a1"].employees)
    /\ result.arg[2] \notin KeysOf(db_employees)
    /\ sessions["a1"].employees # <<>>
    /\ Range(sessions["a1"].employees) = db_employees

====
